---------------------------- MODULE Spec2Model ----------------------------
(***************************************************************************)
(* A model of the chess rules engine of game/chess.py: the Math filters,   *)
(* the six Piece classes, Board, the Move / CastlingMove commands and      *)
(* GameEngine (move, undo, square_attacked, king_attacked).                *)
(*                                                                         *)
(* A coordinate is a pair <<x, y>> (Python's (x, y)); TLA+ tuples are      *)
(* indexed from 1, so p[1] is the file x and p[2] is the rank y.  A piece  *)
(* is a record with the attributes of Piece (color, position, moved) and   *)
(* its class as `kind'.  A Python set or list used only for its truth      *)
(* value is a set: the empty set stands for every falsy result (False,     *)
(* None, set()).                                                           *)
(*                                                                         *)
(* Objects.  Python holds pieces by reference: a command holds the very    *)
(* piece object it has put on the board, the captured list and the killed  *)
(* attribute of a command hold the very object that stood on the square,   *)
(* and undo puts these objects back.  What is written to an object         *)
(* (position, moved, find_cache) is seen through every reference to it.    *)
(* So the Piece objects live in `heap', a sequence indexed by the identity *)
(* of the object (its `id'), and the board, the captured list and the      *)
(* commands hold identities; 0 is None.  deepcopy appends a new object.    *)
(* The functions that only read the board take it as `items': the function *)
(* from coordinate to the piece record standing there, or None.            *)
(***************************************************************************)
EXTENDS Integers, Sequences, FiniteSets, TLC

VARIABLES
    board,          \* Board: the mapping coordinate -> piece object or None
    heap,           \* the Piece objects: color, position, moved, find_cache of each
    turn,           \* Board.turn
    killed,         \* Board.killed, the list of captured pieces
    moves,          \* GameEngine.moves, the committed commands
    undone_moves,   \* GameEngine.undone_moves
    ret,            \* the outcome of the last call: a return value or the exception raised
    int_is_value    \* whether `is' holds of equal integers outside the interpreter's cache

vars == <<board, heap, turn, killed, moves, undone_moves, ret, int_is_value>>

(***************************************************************************)
(* Bounds of the exploration.                                              *)
(***************************************************************************)
MaxMoves == 10      \* no call of move once the history holds this many commands
MaxUndone == 1      \* no call of undo once undone_moves holds this many commands
MaxMoved == 5       \* no call of move on a piece whose move counter reached this

BoardSize == 8

Coord == 0 .. (BoardSize - 1)
Squares == Coord \X Coord
Colors == {"W", "B"}
player_down == "W"

color_change(c) == IF c = "W" THEN "B" ELSE "W"

\* the record that stands for None where a piece is read
None ==
    [kind |-> "None", color |-> "-", position |-> <<0, 0>>, moved |-> 0,
     find_cache |-> {}, _rook |-> <<>>, _bishop |-> <<>>, id |-> 0]

\* Piece.__init__ of the class `kind'.  find_cache holds the keys stored by
\* clean_moves, kept for a King alone (see King_find_raises).  _rook and
\* _bishop are the positions of the Rook and the Bishop that Queen.__init__
\* makes for a Queen, and <<>> for the other classes, which have none.
Piece(kind, color, position, id) ==
    [kind |-> kind, color |-> color, position |-> position, moved |-> 0,
     find_cache |-> {},
     _rook |-> IF kind = "Queen" THEN position ELSE <<>>,
     _bishop |-> IF kind = "Queen" THEN position ELSE <<>>,
     id |-> id]

\* an update_position that a Queen inherits from Piece as the other classes do
Piece_update_position(piece, position) == [piece EXCEPT !.position = position]

\* piece.update_position(position): Queen.update_position for a Queen
update_position(piece, position) ==
    IF piece.kind = "Queen"
    THEN [piece EXCEPT !.position = position, !._rook = position, !._bishop = position]
    ELSE [piece EXCEPT !.position = position]

\* Piece.increase_moves
increase_moves(piece) == [piece EXCEPT !.moved = @ + 1]

\* deepcopy(piece): the next object of the heap h
deepcopy(piece, h) == [piece EXCEPT !.id = Len(h) + 1]

\* the piece that a reference holds
at(h, id) == IF id = 0 THEN None ELSE h[id]

\* the items of the board b over the heap h
items(b, h) == [s \in Squares |-> at(h, b[s])]

Abs(n) == IF n < 0 THEN 0 - n ELSE n

(***************************************************************************)
(* a is b, for two integers that arithmetic has just produced.  The        *)
(* language leaves the identity of equal integers to the interpreter: one  *)
(* that keeps a cache of small integers answers True inside the cache and  *)
(* False outside it, one that compares integers by value answers True.     *)
(***************************************************************************)
int_is(a, b) == a = b /\ (int_is_value \/ (0 - 5 <= a /\ a <= 256))

(***************************************************************************)
(* class Math                                                              *)
(***************************************************************************)
check_range(move) ==
    0 <= move[1] /\ move[1] < BoardSize /\ 0 <= move[2] /\ move[2] < BoardSize

\* int(a / b) truncates towards zero; b = 0 gives the default
safe_divide(a, b, default) ==
    IF b = 0 THEN default
    ELSE IF (a < 0) = (b < 0) THEN Abs(a) \div Abs(b) ELSE 0 - (Abs(a) \div Abs(b))

\* the default "vertical" of the source is the field vertical
slope(start, end) ==
    [vertical |-> (start[1] - end[1] = 0),
     value |-> safe_divide(start[2] - end[2], start[1] - end[1], 0)]

\* the lambda that Math.line(end, start=start) returns, applied to the point m
line(end, start, m) ==
    LET s == slope(start, end)
    IN  IF s.vertical THEN m[1] = end[1]
        ELSE int_is(m[2] - end[2], s.value * (m[1] - end[1]))

diff_points(start, end) ==
    LET x == start[1] - end[1]
        y == start[2] - end[2]
    IN  <<safe_divide(x, Abs(x), 0), safe_divide(y, Abs(y), 0)>>

\* Python's order on tuples is lexicographic
tuple_le(a, b) == a[1] < b[1] \/ (a[1] = b[1] /\ a[2] <= b[2])

\* the lambda that Math.end_point_check(diff) returns, applied to (move, end)
end_point_check(diff, move, end) ==
    IF diff[1] = 0 - 1 \/ diff[2] = 0 - 1 THEN tuple_le(move, end) ELSE tuple_le(end, move)

\* the set that the clean_moves wrapper stores and returns
clean_moves(origin, found) == {m \in found : check_range(m)} \ {origin}

filter_line(start, end, found) ==
    LET diff == diff_points(start, end)
    IN  {m \in found : /\ line(end, start, m)
                       /\ diff_points(start, m) = diff
                       /\ end_point_check(diff, m, end)}

check_blocks(piece, end, b, found) ==
    IF found = {} \/ end \notin found THEN {}
    ELSE LET item_at_end == b[end]
             empty == Cardinality({i \in found : b[i] = None})
             blocked == empty \notin {Cardinality(found), Cardinality(found) - 1}
             last_item_invalid == item_at_end # None /\ piece.color = item_at_end.color
         IN  IF ~(blocked \/ last_item_invalid)
                \/ (piece.kind \in {"Knight", "King"} /\ ~last_item_invalid)
             THEN found ELSE {}

(***************************************************************************)
(* Board                                                                   *)
(***************************************************************************)
_color_picker(index) ==
    IF player_down = "W" THEN (IF index > 3 THEN "W" ELSE "B")
    ELSE (IF index > 3 THEN "B" ELSE "W")

BackRank == <<"Rook", "Knight", "Bishop", "Queen", "King", "Bishop", "Knight", "Rook">>

\* Board.create: _add_pawns(1), _add_pawns(6), _add_other(0), _add_other(7) make
\* the 32 objects in this order, each row by increasing x
create_rows == <<1, 6, 0, 7>>

create_heap ==
    [id \in 1 .. 32 |->
        LET y == create_rows[((id - 1) \div 8) + 1]
            x == (id - 1) % 8
        IN  Piece(IF y \in {1, 6} THEN "Pawn" ELSE BackRank[x + 1], _color_picker(y), <<x, y>>, id)]

create ==
    [s \in Squares |->
        IF \E id \in 1 .. 32 : create_heap[id].position = s
        THEN CHOOSE id \in 1 .. 32 : create_heap[id].position = s
        ELSE 0]

get_pieces(b, color) == {b[s] : s \in {q \in Squares : b[q] # None /\ b[q].color = color}}

\* the list that get_king indexes with [0]
kings(b, color) == {p \in get_pieces(b, color) : p.kind = "King"}

\* element [0] of that list: its order is the order of a set, and no board of the
\* games below holds two Kings of one colour
get_king(b, color) == CHOOSE p \in kings(b, color) : TRUE

\* Piece.__eq__: same class, same position, same colour
piece_key(p) == <<p.kind, p.position, p.color>>

\* Board.__eq__ (player_down never changes)
Board_eq(b1, k1, t1, b2, k2, t2) ==
    /\ {piece_key(p) : p \in get_pieces(b1, "W")} = {piece_key(p) : p \in get_pieces(b2, "W")}
    /\ {piece_key(p) : p \in get_pieces(b1, "B")} = {piece_key(p) : p \in get_pieces(b2, "B")}
    /\ Len(k1) = Len(k2)
    /\ \A i \in 1 .. Len(k1) : piece_key(k1[i]) = piece_key(k2[i])
    /\ t1 = t2

(***************************************************************************)
(* The pieces: find and check_move of each class.  The memo of clean_moves *)
(* returns what the wrapped find would compute again (find of Rook,        *)
(* Bishop and Knight does not read the board, and what King.find returns   *)
(* does not depend on it), so only the keys of a King's find_cache are     *)
(* state: a miss is what makes King.find call get_castling_moves.          *)
(***************************************************************************)
Rook_find(x, y) ==
    clean_moves(<<x, y>>, {<<x, i>> : i \in 0 .. 7} \cup {<<i, y>> : i \in 0 .. 7})

Bishop_find(x, y) ==
    clean_moves(<<x, y>>,
        UNION {{<<x + k, y + k>>, <<x + k, y - k>>, <<x - k, y + k>>, <<x - k, y - k>>} :
               k \in 1 .. 7})

Knight_find(x, y) ==
    clean_moves(<<x, y>>,
        ({x - 1, x + 1} \X {y - 2, y + 2}) \cup ({x - 2, x + 2} \X {y - 1, y + 1}))

Queen_find(x, y) == Bishop_find(x, y) \cup Rook_find(x, y)

Rook_check_move(piece, end, b) ==
    check_blocks(piece, end, b,
        filter_line(piece.position, end, Rook_find(piece.position[1], piece.position[2])))

Bishop_check_move(piece, end, b) ==
    check_blocks(piece, end, b,
        filter_line(piece.position, end, Bishop_find(piece.position[1], piece.position[2])))

\* a Knight that is held to the count of the empty squares as a Rook is
Knight_check_move_counted(piece, end, b) ==
    check_blocks([piece EXCEPT !.kind = "Rook"], end, b,
                 Knight_find(piece.position[1], piece.position[2]))

Knight_check_move(piece, end, b) ==
    check_blocks(piece, end, b, Knight_find(piece.position[1], piece.position[2]))

\* Queen.check_move is wrapped by filter_line alone
Queen_check_move(piece, end, b) ==
    filter_line(piece.position, end, Queen_find(piece.position[1], piece.position[2]))

\* Pawn.__init__: (y_initial, y_add)
y_initial(color) == IF color = player_down THEN 6 ELSE 1

y_add(color) == IF color = player_down THEN 0 - 1 ELSE 1

\* board[move_a] raises KeyError when move_a is no key of the board
Pawn_find_raises(piece) == ~check_range(<<piece.position[1], piece.position[2] + y_add(piece.color)>>)

_kill_moves(piece, x, y, b) ==
    LET positions == {<<x - 1, y + y_add(piece.color)>>, <<x + 1, y + y_add(piece.color)>>}
        pieces == {b[p] : p \in {q \in positions : check_range(q)}}
    IN  {p.position : p \in {q \in pieces : q # None /\ q.color # piece.color}}

\* a Pawn that steps two squares from any rank
_find_non_kill_moves_any_rank(piece, x, y, b) ==
    LET move_a == <<x, y + y_add(piece.color)>>
        move_b == <<x, y + y_add(piece.color) * 2>>
    IN  (IF b[move_a] = None THEN {move_a} ELSE {})
        \cup (IF check_range(move_b) /\ b[move_b] = None /\ b[move_a] = None
              THEN {move_b} ELSE {})

_find_non_kill_moves(piece, x, y, b) ==
    LET move_a == <<x, y + y_add(piece.color)>>
        move_b == <<x, y + y_add(piece.color) * 2>>
        piece_a == b[move_b]
        piece_b == b[<<move_b[1], move_b[2] - y_add(piece.color)>>]
    IN  (IF b[move_a] = None THEN {move_a} ELSE {})
        \cup (IF y = y_initial(piece.color) /\ piece_a = None /\ piece_b = None
              THEN {move_b} ELSE {})

Pawn_find(piece, x, y, b) ==
    _find_non_kill_moves(piece, x, y, b) \cup _kill_moves(piece, x, y, b)

Pawn_check_move(piece, end, b) ==
    LET found == Pawn_find(piece, piece.position[1], piece.position[2], b)
    IN  IF end \in found THEN found ELSE {}

\* the rank a King is constructed on (Board._add_other, rows 0 and 7)
king_y(color) == IF _color_picker(7) = color THEN 7 ELSE 0

\* Castling.__init__(y, start, end, king)
Castling(y, start, end) ==
    [squares |-> {<<x, y>> : x \in start .. (end - 1)},
     rook_start |-> <<(IF start = 1 THEN 0 ELSE 7), y>>,
     king_end |-> <<(IF start = 1 THEN 2 ELSE 6), y>>,
     rook_end |-> <<(IF start = 1 THEN 3 ELSE 5), y>>]

\* the keys of King.castling, in insertion order, and its values
castling_keys(color) ==
    <<(<<<<4, king_y(color)>>, <<2, king_y(color)>>>>), (<<<<4, king_y(color)>>, <<6, king_y(color)>>>>)>>

castling_of(color, key) ==
    IF key[2][1] = 2 THEN Castling(king_y(color), 1, 4) ELSE Castling(king_y(color), 5, 7)

\* check_move of a piece that is not a King; the callers never pass a King here
attack_move(piece, end, b) ==
    CASE piece.kind = "Rook" -> Rook_check_move(piece, end, b)
      [] piece.kind = "Bishop" -> Bishop_check_move(piece, end, b)
      [] piece.kind = "Knight" -> Knight_check_move(piece, end, b)
      [] piece.kind = "Queen" -> Queen_check_move(piece, end, b)
      [] piece.kind = "Pawn" -> Pawn_check_move(piece, end, b)

(***************************************************************************)
(* GameEngine.square_attacked and king_attacked.  t is board.turn.  The    *)
(* list comprehension calls check_move of every opposing piece that is no  *)
(* King, so the KeyError of one Pawn.find is the outcome of the call.      *)
(***************************************************************************)
attackers(b, t) == {p \in get_pieces(b, color_change(t)) : p.kind # "King"}

square_attacked_raises(b, t) ==
    \E p \in attackers(b, t) : p.kind = "Pawn" /\ Pawn_find_raises(p)

square_attacked(end, b, t) ==
    \E p \in attackers(b, t) : attack_move(p, end, b) # {}

\* "" when king_attacked returns, else the exception it raises
king_attacked_raises(b, t) ==
    IF kings(b, t) = {} THEN "IndexError"
    ELSE IF square_attacked_raises(b, t) THEN "KeyError"
    ELSE ""

king_attacked(b, t) == square_attacked(get_king(b, t).position, b, t)

(***************************************************************************)
(* King.  The outcome of is_valid and is_castling is "valid" (the Castling *)
(* object, truthy), "False", or the name of the exception raised.          *)
(***************************************************************************)
Exceptions == {"Exception", "IndexError", "KeyError", "AttributeError"}

\* an is_valid that does not look at the squares between King and Rook
is_valid_any_squares(castling, king, b, t) ==
    LET after(raised) ==
            IF raised # "" THEN raised
            ELSE IF king_attacked(b, t) THEN "False"
            ELSE IF b[castling.rook_start] = None THEN "AttributeError"
            ELSE IF ~(b[castling.rook_start].moved = 0 \/ king.moved = 0) THEN "False"
            ELSE "valid"
    IN  after(king_attacked_raises(b, t))

is_valid(castling, king, b, t) ==
    LET after(raised) ==
            IF raised # "" THEN raised
            ELSE IF king_attacked(b, t) THEN "False"
            ELSE IF \E square \in castling.squares :
                        b[square] # None \/ square_attacked(square, b, t) THEN "False"
            ELSE IF b[castling.rook_start] = None THEN "AttributeError"
            ELSE IF ~(b[castling.rook_start].moved = 0 \/ king.moved = 0) THEN "False"
            ELSE "valid"
    IN  after(king_attacked_raises(b, t))

is_castling(king, end, b, t) ==
    LET possible_castling == <<king.position, end>>
        keys == castling_keys(king.color)
    IN  IF possible_castling \notin {keys[1], keys[2]} THEN "False"
        ELSE is_valid(castling_of(king.color, possible_castling), king, b, t)

\* get_castling_moves calls is_castling for both keys and adds both targets;
\* "" when it returns, else the first exception
get_castling_moves_raises(king, b, t) ==
    LET keys == castling_keys(king.color)
        raised(first, second) ==
            IF first \in Exceptions THEN first
            ELSE IF second \in Exceptions THEN second
            ELSE ""
    IN  raised(is_castling(king, keys[1][2], b, t), is_castling(king, keys[2][2], b, t))

get_castling_moves(king) ==
    {castling_keys(king.color)[1][2], castling_keys(king.color)[2][2]}

King_find(king, x, y) ==
    clean_moves(<<x, y>>, ({x - 1, x + 1, x} \X {y + 1, y - 1, y}) \cup get_castling_moves(king))

\* King.find computes only on a miss of find_cache
King_find_raises(king, b, t) ==
    IF king.position \in king.find_cache THEN "" ELSE get_castling_moves_raises(king, b, t)

King_check_move(king, end, b) ==
    check_blocks(king, end, b, King_find(king, king.position[1], king.position[2]))

\* piece.check_move(end, board) of any class, when it raises nothing
check_move(piece, end, b) ==
    IF piece.kind = "King" THEN King_check_move(piece, end, b) ELSE attack_move(piece, end, b)

\* "" when piece.check_move(end, board) returns, else the exception it raises
check_move_raises(piece, b, t) ==
    CASE piece.kind = "King" -> King_find_raises(piece, b, t)
      [] piece.kind = "Pawn" -> IF Pawn_find_raises(piece) THEN "KeyError" ELSE ""
      [] OTHER -> ""

(***************************************************************************)
(* The commands, over the board b, the heap h and the captured list k.     *)
(* A command holds identities: piece and killed of a Move, king and rook   *)
(* of a CastlingMove.  __init__ returns the command and the heap with the  *)
(* copy it made; exec and undo return what they leave.                     *)
(***************************************************************************)
Move_init(piece, end, h) ==
    [cmd |-> [type |-> "Move", piece |-> Len(h) + 1, start |-> piece.position,
              end |-> end, killed |-> 0],
     heap |-> Append(h, deepcopy(piece, h))]

\* an exec that does not count the move
Move_exec_uncounted(m, b, h, k) ==
    LET b1 == [b EXCEPT ![h[m.piece].position] = 0]
        hit == b1[m.end] # 0
    IN  [cmd |-> [m EXCEPT !.killed = IF hit THEN b1[m.end] ELSE @],
         board |-> [b1 EXCEPT ![m.end] = m.piece],
         heap |-> [h EXCEPT ![m.piece] = update_position(@, m.end)],
         killed |-> IF hit THEN Append(k, b1[m.end]) ELSE k]

Move_exec(m, b, h, k) ==
    LET b1 == [b EXCEPT ![h[m.piece].position] = 0]
        hit == b1[m.end] # 0
    IN  [cmd |-> [m EXCEPT !.killed = IF hit THEN b1[m.end] ELSE @],
         board |-> [b1 EXCEPT ![m.end] = m.piece],
         heap |-> [h EXCEPT ![m.piece] = increase_moves(update_position(@, m.end))],
         killed |-> IF hit THEN Append(k, b1[m.end]) ELSE k]

Move_undo(m, b, h) ==
    [board |-> [b EXCEPT ![m.start] = m.piece, ![m.end] = m.killed],
     heap |-> [h EXCEPT ![m.piece] = update_position(@, m.start)]]

CastlingMove_init(castling, king, h) ==
    [cmd |-> [type |-> "CastlingMove", king |-> Len(h) + 1, rook |-> 0,
              rook_start |-> castling.rook_start, king_start |-> king.position,
              squares |-> castling.squares, king_end |-> castling.king_end,
              rook_end |-> castling.rook_end],
     heap |-> Append(h, deepcopy(king, h))]

CastlingMove_exec(m, b, h, k) ==
    LET rook == Len(h) + 1
        h1 == Append(h, deepcopy(h[b[m.rook_start]], h))
    IN  [cmd |-> [m EXCEPT !.rook = rook],
         board |-> [b EXCEPT ![h1[rook].position] = 0, ![h1[m.king].position] = 0,
                             ![m.rook_end] = rook, ![m.king_end] = m.king],
         heap |-> [h1 EXCEPT ![rook] = increase_moves(update_position(@, m.rook_end)),
                             ![m.king] = increase_moves(update_position(@, m.king_end))],
         killed |-> k]

CastlingMove_undo(m, b, h) ==
    [board |-> [b EXCEPT ![m.king_end] = 0, ![m.rook_end] = 0,
                         ![m.king_start] = m.king, ![m.rook_start] = m.rook],
     heap |-> [h EXCEPT ![m.king] = update_position(@, m.king_start),
                        ![m.rook] = update_position(@, m.rook_start)]]

command_undo(m, b, h) ==
    IF m.type = "Move" THEN Move_undo(m, b, h) ELSE CastlingMove_undo(m, b, h)

(***************************************************************************)
(* GameEngine.move.  An exception leaves what was written before it was    *)
(* raised, so every step returns the state it leaves and the outcome: the  *)
(* value returned ("True", "False", "None") or the exception raised.       *)
(***************************************************************************)
Effect(b, h, k, t, ms, r) ==
    [board |-> b, heap |-> h, killed |-> k, turn |-> t, moves |-> ms, ret |-> r]

\* what get_move leaves: its outcome ("Move" or "CastlingMove" with the command
\* built, "False", or the exception raised) and the heap
Got(outcome, cmd, h) == [outcome |-> outcome, cmd |-> cmd, heap |-> h]

NoCommand == [type |-> "None"]

\* clean_moves stores find(position) in the find_cache of the King that ran check_move
remember_find(piece, h) ==
    IF piece.kind = "King"
    THEN [h EXCEPT ![piece.id].find_cache = @ \cup {piece.position}]
    ELSE h

\* Piece.get_move: Move(self, end) copies the piece that check_move has just used
Piece_get_move(piece, end, b, h, t) ==
    LET built(new) == Got("Move", new.cmd, new.heap)
        checked(h1) ==
            IF check_move(piece, end, items(b, h)) = {}
            THEN Got("False", NoCommand, h1)
            ELSE built(Move_init(h1[piece.id], end, h1))
        after(raised) ==
            IF raised # "" THEN Got(raised, NoCommand, h)
            ELSE checked(remember_find(piece, h))
    IN  after(check_move_raises(piece, items(b, h), t))

King_get_move(king, end, b, h, t) ==
    LET built(new) == Got("CastlingMove", new.cmd, new.heap)
        after(castling) ==
            IF castling \in Exceptions THEN Got(castling, NoCommand, h)
            ELSE IF castling = "False" THEN Piece_get_move(king, end, b, h, t)
            ELSE built(CastlingMove_init(castling_of(king.color, <<king.position, end>>),
                                         king, h))
    IN  after(is_castling(king, end, items(b, h), t))

get_move(piece, end, b, h, t) ==
    IF piece.kind = "King" THEN King_get_move(piece, end, b, h, t)
    ELSE Piece_get_move(piece, end, b, h, t)

\* Move.post_exec: "True", "None" after the undo, or the exception of king_attacked
Move_post_exec(b, t) ==
    LET after(raised) ==
            IF raised # "" THEN raised
            ELSE IF king_attacked(b, t) THEN "None"
            ELSE "True"
    IN  after(king_attacked_raises(b, t))

\* a flip_color that leaves the turn
flip_color_kept(t) == t

\* Board.flip_color
flip_color(t) == color_change(t)

\* a _move that keeps in the history the command it has taken back
_move_keeps_rolled_back(m, b, h, k, t, ms) ==
    LET committed(e) ==
            Effect(e.board, e.heap, e.killed, flip_color(t), Append(ms, e.cmd), "True")
        undone(e, u) == Effect(u.board, u.heap, e.killed, t, Append(ms, e.cmd), "None")
        after(e, post) ==
            IF post \in Exceptions THEN Effect(e.board, e.heap, e.killed, t, ms, post)
            ELSE IF post = "None" THEN undone(e, Move_undo(e.cmd, e.board, e.heap))
            ELSE committed(e)
        executed(e) == after(e, Move_post_exec(items(e.board, e.heap), t))
    IN  IF m.type = "Move"
        THEN executed(Move_exec(m, b, h, k))
        ELSE committed(CastlingMove_exec(m, b, h, k))

\* GameEngine._move
_move(m, b, h, k, t, ms) ==
    LET committed(e) ==
            Effect(e.board, e.heap, e.killed, flip_color(t), Append(ms, e.cmd), "True")
        undone(e, u) == Effect(u.board, u.heap, e.killed, t, ms, "None")
        after(e, post) ==
            IF post \in Exceptions THEN Effect(e.board, e.heap, e.killed, t, ms, post)
            ELSE IF post = "None" THEN undone(e, Move_undo(e.cmd, e.board, e.heap))
            ELSE committed(e)
        executed(e) == after(e, Move_post_exec(items(e.board, e.heap), t))
    IN  IF m.type = "Move"
        THEN executed(Move_exec(m, b, h, k))
        ELSE committed(CastlingMove_exec(m, b, h, k))

\* a move that does not look at the player
GameEngine_move_any_player(start, end, player, b, h, k, t, ms) ==
    IF b[start] = 0 THEN Effect(b, h, k, t, ms, "False")
    ELSE LET run(got) ==
                 IF got.outcome \in {"Move", "CastlingMove"}
                 THEN _move(got.cmd, b, got.heap, k, t, ms)
                 ELSE Effect(b, got.heap, k, t, ms, got.outcome)
         IN  run(get_move(h[b[start]], end, b, h, t))

\* GameEngine.move.  `player is not self.board.turn' compares two strings of
\* one character, "W" or "B", which are one object each
GameEngine_move(start, end, player, b, h, k, t, ms) ==
    IF player # t THEN Effect(b, h, k, t, ms, "Exception")
    ELSE IF b[start] = 0 THEN Effect(b, h, k, t, ms, "False")
    ELSE LET run(got) ==
                 IF got.outcome \in {"Move", "CastlingMove"}
                 THEN _move(got.cmd, b, got.heap, k, t, ms)
                 ELSE Effect(b, got.heap, k, t, ms, got.outcome)
         IN  run(get_move(h[b[start]], end, b, h, t))

(***************************************************************************)
(* The state machine: a fresh engine on the standard position, and calls   *)
(* of move and undo.  The calls of move are drawn from a game: a set of    *)
(* (start, end, player) triples.                                           *)
(***************************************************************************)
\* a pin: e-pawn, king's bishop to b5 with check, the d-pawn and the queen's
\* knight of Black, captures on e4, d5 and e5
PinGame ==
    {<<(<<4, 6>>), (<<4, 4>>), "W">>, <<(<<5, 7>>), (<<1, 3>>), "W">>,
     <<(<<4, 4>>), (<<4, 3>>), "W">>, <<(<<4, 4>>), (<<3, 3>>), "W">>,
     <<(<<3, 1>>), (<<3, 3>>), "B">>, <<(<<1, 0>>), (<<2, 2>>), "B">>,
     <<(<<3, 3>>), (<<4, 4>>), "B">>, <<(<<2, 2>>), (<<4, 3>>), "B">>}

\* Black castles king side after its king has stepped to f8 and back, while
\* the g-pawn of White walks to g6 and takes on h7
CastlingGame ==
    {<<(<<6, 6>>), (<<6, 5>>), "W">>, <<(<<6, 5>>), (<<6, 4>>), "W">>,
     <<(<<6, 4>>), (<<6, 3>>), "W">>, <<(<<6, 3>>), (<<6, 2>>), "W">>,
     <<(<<6, 2>>), (<<7, 1>>), "W">>,
     <<(<<6, 0>>), (<<5, 2>>), "B">>, <<(<<5, 0>>), (<<7, 2>>), "B">>,
     <<(<<4, 0>>), (<<5, 0>>), "B">>, <<(<<5, 0>>), (<<4, 0>>), "B">>,
     <<(<<4, 0>>), (<<6, 0>>), "B">>}

\* the two kings walk to g4 and f5 behind their f-pawns and White takes the
\* king; the step of the White king to g5, attacked by the pawn on f6, is the
\* move that is taken back
KingsGame ==
    {<<(<<5, 6>>), (<<5, 5>>), "W">>, <<(<<4, 7>>), (<<5, 6>>), "W">>,
     <<(<<5, 6>>), (<<6, 5>>), "W">>, <<(<<6, 5>>), (<<6, 4>>), "W">>,
     <<(<<6, 4>>), (<<5, 3>>), "W">>, <<(<<6, 4>>), (<<6, 3>>), "W">>,
     <<(<<5, 1>>), (<<5, 2>>), "B">>, <<(<<4, 0>>), (<<5, 1>>), "B">>,
     <<(<<5, 1>>), (<<6, 2>>), "B">>, <<(<<6, 2>>), (<<5, 3>>), "B">>}

\* the a-pawn of White walks to a6 and takes on b7 and c8, its farthest rank,
\* while Black clears f8 and g8 and castles king side
FarRankGame ==
    {<<(<<0, 6>>), (<<0, 4>>), "W">>, <<(<<0, 4>>), (<<0, 3>>), "W">>,
     <<(<<0, 3>>), (<<0, 2>>), "W">>, <<(<<0, 2>>), (<<1, 1>>), "W">>,
     <<(<<1, 1>>), (<<2, 0>>), "W">>,
     <<(<<6, 0>>), (<<5, 2>>), "B">>, <<(<<5, 0>>), (<<7, 2>>), "B">>,
     <<(<<3, 1>>), (<<3, 2>>), "B">>, <<(<<3, 2>>), (<<3, 3>>), "B">>,
     <<(<<4, 0>>), (<<6, 0>>), "B">>}

\* the e-pawn and the d-pawn step two squares and meet; either takes the other
\* or steps past it; the e-pawn is also asked to step two squares from e4
PawnGame ==
    {<<(<<4, 6>>), (<<4, 4>>), "W">>, <<(<<4, 4>>), (<<3, 3>>), "W">>,
     <<(<<4, 4>>), (<<4, 3>>), "W">>, <<(<<4, 4>>), (<<4, 2>>), "W">>,
     <<(<<3, 1>>), (<<3, 3>>), "B">>, <<(<<3, 3>>), (<<4, 4>>), "B">>,
     <<(<<3, 3>>), (<<3, 4>>), "B">>}

\* the queen's knight of White and the king's knight of Black come out and
\* meet on d5, where the Black Knight takes the White Knight; the Black Knight
\* is also asked to step onto its own pawn on e7
KnightGame ==
    {<<(<<1, 7>>), (<<2, 5>>), "W">>, <<(<<2, 5>>), (<<3, 3>>), "W">>,
     <<(<<6, 0>>), (<<5, 2>>), "B">>, <<(<<5, 2>>), (<<3, 3>>), "B">>,
     <<(<<6, 0>>), (<<4, 1>>), "B">>}

\* the queens: the White Queen is asked to step onto its own pawn on d2, over
\* it to d3 and to a2, off its lines; the Black Queen is asked to go to h4 over
\* its own pawn on e7; and White is asked to push the d-pawn of Black
QueenGame ==
    {<<(<<3, 7>>), (<<3, 6>>), "W">>, <<(<<3, 7>>), (<<3, 5>>), "W">>,
     <<(<<3, 7>>), (<<0, 6>>), "W">>, <<(<<3, 1>>), (<<3, 2>>), "W">>,
     <<(<<3, 0>>), (<<7, 4>>), "B">>}

\* the White Queen steps to d3 and to d4, Black pushes the e-pawn and brings
\* the Queen to h4; with the Black Queen on h4 the step of the White Queen to
\* d4 is taken back
QueenWalkGame ==
    {<<(<<3, 7>>), (<<3, 5>>), "W">>, <<(<<3, 5>>), (<<3, 4>>), "W">>,
     <<(<<4, 1>>), (<<4, 2>>), "B">>, <<(<<3, 0>>), (<<7, 4>>), "B">>}

Init ==
    /\ board = create
    /\ turn = "W"
    /\ killed = <<>>
    /\ moves = <<>>
    /\ undone_moves = <<>>
    /\ heap = create_heap
    /\ ret = ""
    /\ int_is_value \in BOOLEAN

move(start, end, player) ==
    /\ Len(moves) < MaxMoves
    /\ at(heap, board[start]).moved < MaxMoved
    /\ LET leave(e) ==
               /\ board' = e.board
               /\ heap' = e.heap
               /\ killed' = e.killed
               /\ turn' = e.turn
               /\ moves' = e.moves
               /\ ret' = e.ret
       IN  leave(GameEngine_move(start, end, player, board, heap, killed, turn, moves))
    /\ UNCHANGED <<undone_moves, int_is_value>>

\* GameEngine.undo(): pop of an empty list raises IndexError
undo ==
    /\ Len(undone_moves) < MaxUndone
    /\ IF moves = <<>>
       THEN ret' = "IndexError" /\ UNCHANGED <<board, heap, turn, moves, undone_moves>>
       ELSE LET leave(m, u) ==
                    /\ moves' = SubSeq(moves, 1, Len(moves) - 1)
                    /\ board' = u.board
                    /\ heap' = u.heap
                    /\ undone_moves' = Append(undone_moves, m)
                    /\ turn' = flip_color(turn)
                    /\ ret' = "None"
            IN  leave(moves[Len(moves)], command_undo(moves[Len(moves)], board, heap))
    /\ UNCHANGED <<killed, int_is_value>>

Next ==
    \/ \E i \in PinGame : move(i[1], i[2], i[3])
    \/ undo

Spec == Init /\ [][Next]_vars

NextCastling ==
    \/ \E i \in CastlingGame : move(i[1], i[2], i[3])
    \/ undo

SpecCastling == Init /\ [][NextCastling]_vars

NextKings ==
    \/ \E i \in KingsGame : move(i[1], i[2], i[3])
    \/ undo

SpecKings == Init /\ [][NextKings]_vars

NextFarRank ==
    \/ \E i \in FarRankGame : move(i[1], i[2], i[3])
    \/ undo

SpecFarRank == Init /\ [][NextFarRank]_vars

NextPawn ==
    \/ \E i \in PawnGame : move(i[1], i[2], i[3])
    \/ undo

SpecPawn == Init /\ [][NextPawn]_vars

NextKnight ==
    \/ \E i \in KnightGame : move(i[1], i[2], i[3])
    \/ undo

SpecKnight == Init /\ [][NextKnight]_vars

NextQueen ==
    \/ \E i \in QueenGame : move(i[1], i[2], i[3])
    \/ undo

SpecQueen == Init /\ [][NextQueen]_vars

NextQueenWalk ==
    \/ \E i \in QueenWalkGame : move(i[1], i[2], i[3])
    \/ undo

SpecQueenWalk == Init /\ [][NextQueenWalk]_vars

(***************************************************************************)
(* The claims.  A step of move is told from a step of undo by the stacks:  *)
(* only undo changes undone_moves, and it always does; of the outcomes     *)
(* only "None" is shared, by undo and by a move rolled back.               *)
(***************************************************************************)
Calls ==
    PinGame \cup CastlingGame \cup KingsGame \cup FarRankGame \cup PawnGame \cup KnightGame
        \cup QueenGame \cup QueenWalkGame

\* the pieces on the squares before and after the step
pieces_now == items(board, heap)

pieces_after == items(board', heap')

\* the pieces of a captured list
killed_pieces(k, h) == [i \in 1 .. Len(k) |-> h[k[i]]]

\* the step committed a command: move returned True
Committed == Len(moves') = Len(moves) + 1

\* the step is a call of move that returned its failure value
Failed == ret' \in {"False", "None"} /\ undone_moves' = undone_moves

\* an opposing piece, no King, whose check_move returns reaches the square
attacked(end, b, t) ==
    \E p \in attackers(b, t) :
        /\ ~(p.kind = "Pawn" /\ Pawn_find_raises(p))
        /\ attack_move(p, end, b) # {}

\* the squares strictly between start and end on a rank, a file or a diagonal
between(start, end) ==
    LET dx == end[1] - start[1]
        dy == end[2] - start[2]
        n == IF Abs(dx) > Abs(dy) THEN Abs(dx) ELSE Abs(dy)
    IN  IF dx = 0 \/ dy = 0 \/ Abs(dx) = Abs(dy)
        THEN {<<start[1] + k * (dx \div n), start[2] + k * (dy \div n)>> : k \in 1 .. n - 1}
        ELSE {}

\* end is on the line of travel of the piece: rank or file of a Rook, diagonal of a Bishop
travels(piece, end) ==
    LET dx == end[1] - piece.position[1]
        dy == end[2] - piece.position[2]
    IN  /\ end # piece.position
        /\ IF piece.kind = "Rook" THEN dx = 0 \/ dy = 0 ELSE Abs(dx) = Abs(dy)

\* the preconditions of castling for the king standing on its start square:
\* King and own Rook unmoved, transit squares empty and not attacked, King not
\* attacked
castling_precondition(castling, king, b) ==
    /\ king.moved = 0
    /\ b[castling.rook_start].kind = "Rook"
    /\ b[castling.rook_start].color = king.color
    /\ b[castling.rook_start].moved = 0
    /\ \A square \in castling.squares : b[square] = None /\ ~attacked(square, b, king.color)
    /\ ~attacked(king.position, b, king.color)

\* the calls move(kingStart, castleTarget, colour) with the King of the side to
\* move on its start square
castling_calls ==
    {key \in {castling_keys(turn)[1], castling_keys(turn)[2]} :
        pieces_now[key[1]].kind = "King" /\ pieces_now[key[1]].color = turn}

\* C1: every command committed to history, Move or CastlingMove, left the
\* mover's own king not attacked by the engine's king_attacked, on the board
\* right after the command and before the turn flips.
C1_NoSelfCheckCommitted ==
    [][Committed => ~king_attacked(pieces_after, turn)]_vars

\* C2: whenever move returns a failure (no piece at start, unreachable
\* destination, self-check rolled back) the Board after the call equals the
\* Board before it: the same pieces, the same captured list, the same turn.
C2_FailureLeavesBoard ==
    [][Failed => Board_eq(pieces_after, killed_pieces(killed', heap'), turn',
                          pieces_now, killed_pieces(killed, heap), turn)]_vars

\* C3: for every accepted move, exec of the command followed by its undo gives a
\* Board equal under Board.__eq__ to the Board before exec: the same pieces, the
\* same captured list, the same turn.
C3_ExecUndoRoundTrip ==
    [][ret' = "True" =>
          LET u == command_undo(moves'[Len(moves')], board', heap')
          IN  Board_eq(items(u.board, u.heap), killed_pieces(killed', u.heap), turn,
                       pieces_now, killed_pieces(killed, heap), turn)]_vars

\* C4: a move that returns success flips the turn once, a move that fails leaves
\* the turn, undo of the last committed move flips it back; so the turn is White
\* exactly when the history has even length.
C4_TurnParity ==
    /\ [](turn = "W" <=> Len(moves) % 2 = 0)
    /\ [][/\ ret' = "True" => turn' = color_change(turn) /\ Committed
          /\ (undone_moves' = undone_moves /\ ret' # "True") =>
                 turn' = turn /\ moves' = moves
          /\ (undone_moves' # undone_moves) =>
                 /\ turn' = color_change(turn)
                 /\ Len(moves') = Len(moves) - 1
                 /\ turn' = (IF Len(moves) % 2 = 1 THEN "W" ELSE "B")]_vars

\* a success after an undo, with a history of odd length
C4_Witness ==
    undone_moves # <<>> /\ ret = "True" /\ Len(moves) % 2 = 1

\* C5: once a call has returned the board holds exactly one White King and
\* exactly one Black King; no committed move captures a King.
C5_OneKingEach ==
    ret \in {"", "True", "False", "None"} =>
        \A c \in Colors : Cardinality(kings(pieces_now, c)) = 1

C7_BlockedPathFails ==
    \A s \in Squares : pieces_now[s].kind \in {"Rook", "Bishop"} =>
        \A end \in Squares :
            (/\ travels(pieces_now[s], end)
             /\ \E q \in between(s, end) : pieces_now[q] # None)
                => check_move(pieces_now[s], end, pieces_now) = {}

\* C8: a CastlingMove is executed only if the King and the Rook on the rook
\* start square have both never moved: both counters are 0 at the call.
C8_CastlingOnlyUnmoved ==
    [][(Committed /\ moves'[Len(moves')].type = "CastlingMove") =>
          /\ pieces_now[moves'[Len(moves')].king_start].moved = 0
          /\ pieces_now[moves'[Len(moves')].rook_start].moved = 0]_vars

\* C9: with the King on its castling start square and a castling precondition
\* of the requested side failing, move(kingStart, castleTarget, colour) returns
\* an ordinary failure: nothing is raised, the King does not reach the castle
\* target and the board is unchanged.
C9_FailedCastlingFails ==
    [][\A key \in castling_calls :
          (/\ ~castling_precondition(castling_of(turn, key), pieces_now[key[1]], pieces_now)
           /\ move(key[1], key[2], turn)) =>
              /\ ret' \in {"False", "None"}
              /\ pieces_after[key[2]].kind # "King"
              /\ Board_eq(pieces_after, killed_pieces(killed', heap'), turn',
                          pieces_now, killed_pieces(killed, heap), turn)]_vars

\* C10: with King and Rook unmoved, the transit squares empty and not attacked
\* and the King not attacked, move(kingStart, castleTarget, colour) returns
\* success, puts the King on king_end and the Rook on rook_end, empties both
\* start squares, adds 1 to both counters, flips the turn and pushes one entry.
C10_CastlingSucceeds ==
    [][\A key \in castling_calls :
          LET castling == castling_of(turn, key)
              king == pieces_now[key[1]]
              rook == pieces_now[castling.rook_start]
          IN  (/\ castling_precondition(castling, king, pieces_now)
               /\ move(key[1], key[2], turn)) =>
                  /\ ret' = "True"
                  /\ pieces_after[castling.king_end].kind = "King"
                  /\ pieces_after[castling.king_end].color = king.color
                  /\ pieces_after[castling.king_end].moved = king.moved + 1
                  /\ pieces_after[castling.rook_end].kind = "Rook"
                  /\ pieces_after[castling.rook_end].color = rook.color
                  /\ pieces_after[castling.rook_end].moved = rook.moved + 1
                  /\ pieces_after[key[1]] = None
                  /\ pieces_after[castling.rook_start] = None
                  /\ turn' = color_change(turn)
                  /\ Len(moves') = Len(moves) + 1
                  /\ SubSeq(moves', 1, Len(moves)) = moves]_vars

\* the direction of travel, the starting rank and the farthest rank of a Pawn
forward(color) == IF color = "W" THEN 0 - 1 ELSE 1

starting_rank(color) == IF color = "W" THEN 6 ELSE 1

farthest_rank(color) == IF color = "W" THEN 0 ELSE 7

\* the rule of a Pawn of the colour on the square s: one step forward to an empty
\* square, two steps from the starting rank over two empty squares, one step
\* diagonally forward onto an enemy piece
pawn_rule(s, color, end, b) ==
    \/ end = <<s[1], s[2] + forward(color)>> /\ b[end] = None
    \/ /\ s[2] = starting_rank(color)
       /\ end = <<s[1], s[2] + 2 * forward(color)>>
       /\ b[<<s[1], s[2] + forward(color)>>] = None
       /\ b[end] = None
    \/ /\ end \in {<<s[1] - 1, s[2] + forward(color)>>, <<s[1] + 1, s[2] + forward(color)>>}
       /\ end \in Squares
       /\ b[end] # None
       /\ b[end].color # color

\* the squares of the Pawns of the board b that are not on their farthest rank
pawn_squares(b) ==
    {s \in Squares : b[s].kind = "Pawn" /\ s[2] # farthest_rank(b[s].color)}

\* C11: for a Pawn not on its farthest rank, check_move(end, board) succeeds
\* exactly when end is one step forward and empty, or two steps forward from the
\* starting rank with both squares empty, or one step diagonally forward onto an
\* enemy piece; a Pawn that has left its starting rank never double-steps.
C11_PawnMoves ==
    LET holds(b) ==
            \A s \in pawn_squares(b) : \A end \in Squares :
                (check_move(b[s], end, b) # {}) <=> pawn_rule(s, b[s].color, end, b)
    IN  holds(pieces_now)

\* a Pawn off its starting rank stands diagonally behind an enemy piece and may
\* take it, and may not step two squares over the two empty squares before it
C11_Witness ==
    LET seen(b) ==
            \E s \in pawn_squares(b) :
                /\ s[2] # starting_rank(b[s].color)
                /\ \E end \in Squares : end[1] # s[1] /\ check_move(b[s], end, b) # {}
                /\ b[<<s[1], s[2] + forward(b[s].color)>>] = None
                /\ b[<<s[1], s[2] + 2 * forward(b[s].color)>>] = None
                /\ check_move(b[s], <<s[1], s[2] + 2 * forward(b[s].color)>>, b) = {}
    IN  seen(pieces_now)


\* the squares an L-shaped step away from origin that are on the board
knight_offsets(origin) ==
    {m \in Squares : {Abs(m[1] - origin[1]), Abs(m[2] - origin[2])} = {1, 2}}

\* the Knights of the board b
knights_on(b) == {b[s] : s \in {q \in Squares : b[q].kind = "Knight"}}

\* C12: for every origin, Knight.find(origin) is exactly the in-range subset of
\* the 8 L-shaped offsets, and Knight.check_move(end, board) succeeds exactly
\* when end is in that set and holds no piece of the Knight's colour, whatever
\* stands on the other squares.
C12_KnightMoves ==
    LET holds(b) ==
            /\ \A origin \in Squares :
                   Knight_find(origin[1], origin[2]) = knight_offsets(origin)
            /\ \A n \in knights_on(b) : \A end \in Squares :
                   (check_move(n, end, b) # {}) <=>
                       /\ end \in knight_offsets(n.position)
                       /\ ~(b[end] # None /\ b[end].color = n.color)
    IN  holds(pieces_now)

\* a Knight that has moved stands an L-shaped step from a piece of its colour,
\* which it may not take, from an enemy piece, which it may, and from an empty
\* square it may step to although more than one of the eight squares is filled
C12_Witness ==
    LET seen(b) ==
            \E n \in knights_on(b) :
                /\ n.moved > 0
                /\ \E end \in knight_offsets(n.position) :
                       b[end] # None /\ b[end].color = n.color /\ check_move(n, end, b) = {}
                /\ \E end \in knight_offsets(n.position) :
                       b[end] # None /\ b[end].color # n.color /\ check_move(n, end, b) # {}
                /\ \E end \in knight_offsets(n.position) :
                       b[end] = None /\ check_move(n, end, b) # {}
                /\ Cardinality({end \in knight_offsets(n.position) : b[end] # None}) > 1
    IN  seen(pieces_now)


\* find(*piece.position, board=b) of the piece, when it raises nothing
find_of(piece, b) ==
    CASE piece.kind = "Rook" -> Rook_find(piece.position[1], piece.position[2])
      [] piece.kind = "Bishop" -> Bishop_find(piece.position[1], piece.position[2])
      [] piece.kind = "Knight" -> Knight_find(piece.position[1], piece.position[2])
      [] piece.kind = "Queen" -> Queen_find(piece.position[1], piece.position[2])
      [] piece.kind = "King" -> King_find(piece, piece.position[1], piece.position[2])
      [] piece.kind = "Pawn" -> Pawn_find(piece, piece.position[1], piece.position[2], b)

\* find of the piece returns a set without its origin and without a coordinate
\* off the board
find_is_clean(piece, b, t) ==
    /\ check_move_raises(piece, b, t) = ""
    /\ find_of(piece, b) \subseteq (Squares \ {piece.position})

\* C13: for every piece variant and every origin on the board, find(origin)
\* returns a set that holds neither origin nor a coordinate outside the board,
\* fresh or from the cache of the piece.  Stated for Rook, Bishop, Knight and
\* Queen at every origin, and for every piece of the board at its own square.
C13_FindIsClean ==
    LET holds(b) ==
            /\ \A origin \in Squares :
                   Rook_find(origin[1], origin[2]) \cup Bishop_find(origin[1], origin[2])
                       \cup Knight_find(origin[1], origin[2]) \cup Queen_find(origin[1], origin[2])
                       \subseteq (Squares \ {origin})
            /\ \A s \in Squares : b[s] # None => find_is_clean(b[s], b, turn)
    IN  holds(pieces_now)


\* the move counters of the pieces a command moved, read on the board b at the
\* squares the command took them from
counters_at_start(m, b) ==
    IF m.type = "Move" THEN <<b[m.start].moved>>
    ELSE <<b[m.king_start].moved, b[m.rook_start].moved>>

\* the same counters at the squares the command took them to
counters_at_end(m, b) ==
    IF m.type = "Move" THEN <<b[m.end].moved>>
    ELSE <<b[m.king_end].moved, b[m.rook_end].moved>>

\* one less in every counter: exec adds one to each
before_exec(counters) == [i \in DOMAIN counters |-> counters[i] - 1]

\* C14: undo restores the move counters.  exec of a committed command followed
\* by its undo leaves the counter of the moved piece (of King and Rook for a
\* CastlingMove) as it was before exec; so does a move rolled back for
\* self-check; so does GameEngine.undo() of the last command.
C14_UndoRestoresCounters ==
    [][/\ ret' = "True" =>
             LET restored(m, u) ==
                     counters_at_start(m, items(u.board, u.heap)) = counters_at_start(m, pieces_now)
             IN  restored(moves'[Len(moves')],
                          command_undo(moves'[Len(moves')], board', heap'))
       /\ (ret' = "None" /\ undone_moves' = undone_moves) =>
             \A s \in Squares : pieces_after[s].moved = pieces_now[s].moved
       /\ (undone_moves' # undone_moves) =>
             LET restored(m) ==
                     counters_at_start(m, pieces_after) = before_exec(counters_at_end(m, pieces_now))
             IN  restored(moves[Len(moves)])]_vars


\* C15: move only ever moves a piece of the colour passed as player: when the
\* piece at start is of the other colour the call fails and leaves the board,
\* so no committed Move relocates a piece of another colour than the side whose
\* turn it was.
C15_MovesOwnPieces ==
    [][/\ \A i \in Calls :
              (/\ i[3] = turn
               /\ pieces_now[i[1]] # None
               /\ pieces_now[i[1]].color # i[3]
               /\ move(i[1], i[2], i[3]))
                  => Failed /\ UNCHANGED <<board, killed, turn, moves>>
       /\ (Committed /\ moves'[Len(moves')].type = "Move") =>
              heap'[moves'[Len(moves')].piece].color = turn]_vars


\* end is on the rank, the file or a diagonal of start, and is not start
collinear(start, end) ==
    /\ end # start
    /\ \/ end[1] = start[1]
       \/ end[2] = start[2]
       \/ Abs(end[1] - start[1]) = Abs(end[2] - start[2])

\* C16: check_move(end, board) of a Queen succeeds only when end lies on the
\* rank, the file or a diagonal of the Queen and every square strictly between
\* the Queen and end is empty.
C16_QueenPath ==
    \A s \in Squares : pieces_now[s].kind = "Queen" =>
        \A end \in Squares :
            check_move(pieces_now[s], end, pieces_now) # {} =>
                /\ collinear(s, end)
                /\ \A q \in between(s, end) : pieces_now[q] = None

\* C17: no committed move captures a piece of the mover's colour: when move
\* returns success the destination was empty or held an opposing piece, and the
\* captured list gains only pieces of the colour opposite to the mover.
C17_NoOwnCapture ==
    [][(Committed /\ moves'[Len(moves')].type = "Move") =>
          LET own(m, mover) ==
                  /\ pieces_now[m.end] = None \/ pieces_now[m.end].color # mover.color
                  /\ \A i \in (Len(killed) + 1) .. Len(killed') :
                         heap'[killed'[i]].color # mover.color
          IN  own(moves'[Len(moves')], heap'[moves'[Len(moves')].piece])]_vars


\* the squares from start (exclusive) to end (inclusive)
segment(start, end) == between(start, end) \cup {end}

\* C18: for every start and every end on a rank, file or diagonal of start, the
\* collinearity filter applied to the candidates of a sliding piece returns
\* exactly the squares from start (exclusive) to end (inclusive), in all eight
\* directions.  The candidates are those of a Queen, which lie in all eight.
C18_FilterIsSegment ==
    \A start \in Squares : \A end \in Squares :
        collinear(start, end) =>
            filter_line(start, end, Queen_find(start[1], start[2])) = segment(start, end)


\* C19: every committed King move that is no CastlingMove ends on a square
\* next to its start, file and rank each changing by at most 1; the castling
\* target squares are not reached by a plain Move of the King.
C19_KingStepsOne ==
    [][(Committed /\ moves'[Len(moves')].type = "Move") =>
          LET one_step(m) ==
                  heap'[m.piece].kind = "King" =>
                      Abs(m.end[1] - m.start[1]) <= 1 /\ Abs(m.end[2] - m.start[2]) <= 1
          IN  one_step(moves'[Len(moves')])]_vars


\* the piece p can capture on the square under its movement rules: a Rook,
\* Bishop or Queen on a common line with no piece in between, a Knight one
\* L-jump away, a Pawn diagonally behind the square
captures_on(p, square, b) ==
    CASE p.kind = "Rook" ->
            /\ collinear(p.position, square)
            /\ p.position[1] = square[1] \/ p.position[2] = square[2]
            /\ \A q \in between(p.position, square) : b[q] = None
      [] p.kind = "Bishop" ->
            /\ collinear(p.position, square)
            /\ Abs(p.position[1] - square[1]) = Abs(p.position[2] - square[2])
            /\ \A q \in between(p.position, square) : b[q] = None
      [] p.kind = "Queen" ->
            /\ collinear(p.position, square)
            /\ \A q \in between(p.position, square) : b[q] = None
      [] p.kind = "Knight" -> square \in knight_offsets(p.position)
      [] p.kind = "Pawn" ->
            /\ square[2] = p.position[2] + forward(p.color)
            /\ Abs(square[1] - p.position[1]) = 1
      [] OTHER -> FALSE

\* C20: king_attacked(board) is true if and only if some opposing piece that is
\* no King can capture on the square of the king of board.turn under its
\* movement rules; a Queen off the lines of the king, or behind a piece, is no
\* attacker.
C20_KingAttackedIsCapture ==
    LET holds(b) ==
            king_attacked_raises(b, turn) = "" =>
                (king_attacked(b, turn) <=>
                    \E p \in attackers(b, turn) :
                        captures_on(p, get_king(b, turn).position, b))
    IN  holds(pieces_now)


\* C21: after a successful non-castling move from start to end the start
\* square is empty, the end square holds the moved piece (same kind and colour,
\* position end), the captured list is the previous list with the previous
\* occupant of end appended if there was one, the move counter of the mover has
\* grown by exactly 1, and every other square is unchanged.
C21_MoveEffect ==
    [][(Committed /\ moves'[Len(moves')].type = "Move") =>
          LET effect(m) ==
                  /\ pieces_after[m.start] = None
                  /\ pieces_after[m.end].kind = pieces_now[m.start].kind
                  /\ pieces_after[m.end].color = pieces_now[m.start].color
                  /\ pieces_after[m.end].position = m.end
                  /\ pieces_after[m.end].moved = pieces_now[m.start].moved + 1
                  /\ killed_pieces(killed', heap') =
                         IF pieces_now[m.end] = None THEN killed_pieces(killed, heap)
                         ELSE Append(killed_pieces(killed, heap), pieces_now[m.end])
                  /\ \A s \in Squares \ {m.start, m.end} : pieces_after[s] = pieces_now[s]
          IN  effect(moves'[Len(moves')])]_vars

\* the last call of move returned success with a capture: the captured list
\* ends with the piece the last command of the history took
C21_Witness ==
    /\ ret = "True"
    /\ moves # <<>>
    /\ moves[Len(moves)].type = "Move"
    /\ moves[Len(moves)].killed # 0
    /\ killed # <<>>
    /\ killed[Len(killed)] = moves[Len(moves)].killed


\* the step is a call of move by the player whose turn it is: it is no undo,
\* which adds to undone_moves or raises IndexError on the empty history and
\* leaves everything, and no call by the other player, which raises Exception
TurnCall ==
    /\ undone_moves' = undone_moves
    /\ ret' # "Exception"
    /\ ~(moves = <<>> /\ ret' = "IndexError" /\ UNCHANGED <<board, heap, turn, moves>>)

\* C22: in every state reached by committed moves, a Pawn on its farthest rank
\* included, move called with coordinates on the board and the player whose
\* turn it is runs to its end and returns a success or failure value; no call
\* is aborted with the board half-updated.
C22_MoveReturns ==
    [][TurnCall => ret' \in {"True", "False", "None"}]_vars


\* C23: move executes a CastlingMove only if, at the call, the King of the side
\* to move is not attacked and every square between the King and the Rook of
\* the chosen side is empty and is not reported attacked by square_attacked.
C23_CastlingOnlyFreePassage ==
    [][(Committed /\ moves'[Len(moves')].type = "CastlingMove") =>
          LET free(m) ==
                  /\ ~king_attacked(pieces_now, turn)
                  /\ \A square \in between(m.king_start, m.rook_start) :
                         /\ pieces_now[square] = None
                         /\ ~square_attacked(square, pieces_now, turn)
          IN  free(moves'[Len(moves')])]_vars

\* the last call of move returned success with a CastlingMove: King and Rook
\* stand on their end squares
C23_Witness ==
    /\ ret = "True"
    /\ moves # <<>>
    /\ moves[Len(moves)].type = "CastlingMove"
    /\ pieces_now[moves[Len(moves)].king_end].kind = "King"
    /\ pieces_now[moves[Len(moves)].rook_end].kind = "Rook"


\* the squares a command took its pieces from hold them again, and the squares
\* it took them to hold what they held before: the captured piece or nothing
\* for a Move, nothing for a CastlingMove
inverted(m, before, after) ==
    IF m.type = "Move"
    THEN /\ after[m.start].kind = before[m.end].kind
         /\ after[m.start].color = before[m.end].color
         /\ after[m.start].position = m.start
         /\ after[m.end] = at(heap, m.killed)
    ELSE /\ after[m.king_start].kind = "King"
         /\ after[m.king_start].position = m.king_start
         /\ after[m.rook_start].kind = "Rook"
         /\ after[m.rook_start].position = m.rook_start
         /\ after[m.king_end] = None
         /\ after[m.rook_end] = None

\* C24: the history grows by exactly one command on every successful move and
\* is unchanged by every failed move, a move rolled back for self-check
\* included; undo() removes the top command of the history, inverts it on the
\* board and pushes it onto undone_moves; so every committed move adds one to
\* the sum of the lengths of the two stacks and nothing else changes the sum.
C24_Stacks ==
    [][/\ ret' = "True" =>
             /\ Len(moves') = Len(moves) + 1
             /\ SubSeq(moves', 1, Len(moves)) = moves
             /\ undone_moves' = undone_moves
       /\ (ret' # "True" /\ undone_moves' = undone_moves) => moves' = moves
       /\ (undone_moves' # undone_moves) =>
             /\ moves # <<>>
             /\ moves' = SubSeq(moves, 1, Len(moves) - 1)
             /\ undone_moves' = Append(undone_moves, moves[Len(moves)])
             /\ inverted(moves[Len(moves)], pieces_now, pieces_after)
       /\ Len(moves') + Len(undone_moves') =
             Len(moves) + Len(undone_moves) + (IF ret' = "True" THEN 1 ELSE 0)]_vars

\* undo() has taken back a capture, which is on undone_moves with the captured
\* piece back on its square, and an earlier command is still in the history
C24_Witness ==
    /\ undone_moves # <<>>
    /\ moves # <<>>
    /\ undone_moves[Len(undone_moves)].type = "Move"
    /\ undone_moves[Len(undone_moves)].killed # 0
    /\ board[undone_moves[Len(undone_moves)].end] = undone_moves[Len(undone_moves)].killed


=============================================================================
